---- MODULE Spec2Model ----
(***************************************************************************)
(* A model of the nova foundation components:                              *)
(*   - the resolution Container (src/src/foundation/container.ts)          *)
(*   - the execution Pipeline   (src/src/foundation/pipeline.ts)           *)
(*   - the Application          (src/src/foundation/application.ts)        *)
(*   - the Logger               (logger.ts)                                *)
(* Spec     : the Container driven through bind / singleton / instance /   *)
(*            make.                                                        *)
(* PipeSpec : one Pipeline instance driven through send / through /        *)
(*            thenReturn, the run executed one dispatch step at a time.    *)
(* OverlapSpec : the same, with send / through also called while a run is  *)
(*            suspended between two pipes.                                 *)
(* NestedSpec : the Container driven with overrides through aliases and    *)
(*            dependencies whose constructors declare parameters.          *)
(* ForkSpec : a Pipeline run through pipes that call their continuation    *)
(*            twice without awaiting the first call.                       *)
(* AppSpec  : an Application, a Container with the base instances, driven  *)
(*            through register / flush and the container operations.       *)
(* LogSpec  : one Logger driven through pipeThrough and the level methods  *)
(*            while the UTC day advances.                                  *)
(***************************************************************************)
EXTENDS Integers, Sequences, FiniteSets, TLC

VARIABLES
    bindings,   \* Container.bindings : Map<Abstract, Concrete>
    instances,  \* Container.instances: Map<Abstract, any>
    resolved,   \* Container.resolved : Set<Abstract>
    buildStack, \* Container.buildStack
    heap,       \* the objects allocated so far; object n is heap[n]
    last,       \* the most recent container operation and its outcome
    registered, \* history: the object most recently given to instance(X, .)
    sharedFirst,\* history: what the first successful make of X returned while X was shared
    rebound,    \* history: X was re-bound while it had a cache entry
    made,       \* history: what the most recent successful make of X returned
    nops,       \* number of container operations performed
    pipes,      \* Pipeline.pipes
    payload,    \* Pipeline.payload
    index,      \* thenReturn's "let index": the highest index dispatched
    stack,      \* the pipes of the current run that wait for their continuation
    ctl,        \* what the current run does next: a dispatch call, a return, a throw
    log,        \* the invocations and continuation calls of the current run, in order
    runs,       \* number of thenReturn calls made
    began,      \* history: the pipes and the payload the current run was started with
    serviceProviders, \* Application.serviceProviders: the names that have a provider instance
    loadedProviders,  \* Application.loadedProviders
    booted,     \* Application.booted
    hooks,      \* history: how often each provider's register() hook was called
    called,     \* the most recent Application operation and its outcome
    lpipes,     \* Logger.pipes
    stream,     \* Logger.stream: the file the write stream was opened on
    today,      \* the clock: the current UTC day
    written,    \* the lines written so far, each with the file and the day it was written
    lcall,      \* the most recent Logger call and the trace of its dispatch
    nlogs       \* number of Logger calls made

cvars == <<bindings, instances, resolved, buildStack, heap, last, registered,
           sharedFirst, rebound, made, nops>>
pvars == <<pipes, payload, index, stack, ctl, log, runs, began>>
avars == <<serviceProviders, loadedProviders, booted, hooks, called>>
lvars == <<lpipes, stream, today, written, lcall, nlogs>>
vars == <<cvars, pvars, avars, lvars>>

---------------------------------------------------------------------------
(* Bounds of the model *)

MaxOps == 4     \* container operations per behaviour
MaxObjs == 3    \* objects allocated per behaviour
MaxDepth == 5   \* nested make/build calls before the engine's stack overflows
MaxPipes == 3   \* pipes given to through()
MaxRuns == 2    \* thenReturn calls per behaviour
MaxLogPipes == 2 \* pipes given to pipeThrough()
MaxLogs == 2    \* Logger calls per behaviour
MaxDay == 2     \* UTC days the clock runs through

---------------------------------------------------------------------------
(* Identifiers (Abstract) and values *)

Str(t) == [kind |-> "string", text |-> t]
Cls(t) == [kind |-> "class", text |-> t]
Fun(t) == [kind |-> "function", text |-> t]

NameA == <<"a">>
NameB == <<"b">>
StrA == Str(NameA)
StrB == Str(NameB)
Foo == Cls(<<"Foo">>)       \* class Foo {}
Baz == Cls(<<"Baz">>)       \* class Baz { constructor(b) {} }
Two == Cls(<<"Two">>)       \* class Two { constructor(a, b) {} }
Dep == Cls(<<"Dep">>)       \* class Dep { constructor(a) {} }
Fresh == Fun(<<"fresh">>)   \* () => ({})      a new object on each call
Hello == Fun(<<"hello">>)   \* () => 'hello'   the same value on each call
CallerObject == Cls(<<"Object">>)

Ids == {StrA, StrB, Foo, Baz, Two, Dep, Fresh, Hello}

NoValue == [t |-> "none", id |-> 0]
Undefined == [t |-> "undefined", id |-> 0]
Nova == [t |-> "prim", id |-> 1]
HelloValue == [t |-> "prim", id |-> 2]
Obj(n) == [t |-> "obj", id |-> n]

NoError == [kind |-> "", name |-> <<>>, index |-> 0, owner |-> <<>>]
MissingDependency(name, at, owner) ==
    [kind |-> "MissingDependency", name |-> name, index |-> at, owner |-> owner]
TypeError == [kind |-> "TypeError", name |-> <<>>, index |-> 0, owner |-> <<>>]
RangeError == [kind |-> "RangeError", name |-> <<>>, index |-> 0, owner |-> <<>>]

(* The formal parameters each class declares, in declaration order. *)
DeclaredParams(c) ==
    CASE c = Baz -> <<NameB>>
      [] c = Two -> <<NameA, NameB>>
      [] c = Dep -> <<NameA>>
      [] OTHER -> <<>>

HasConstructor(c) == c \in {Baz, Two, Dep}

RECURSIVE JoinComma(_)
JoinComma(names) ==
    IF names = <<>> THEN <<>>
    ELSE IF Len(names) = 1 THEN Head(names)
    ELSE Head(names) \o <<",", " ">> \o JoinComma(Tail(names))

(* Function.prototype.toString of a class: the text between the parentheses
   of its constructor, as the source is written ("a, b"). *)
ConstructorArgsText(c) == JoinComma(DeclaredParams(c))

---------------------------------------------------------------------------
(* Container.getParamNames *)

RECURSIVE StripLeadingSpace(_)
StripLeadingSpace(s) ==
    IF s # <<>> /\ Head(s) = " " THEN StripLeadingSpace(Tail(s)) ELSE s

RECURSIVE SplitComma(_, _)
SplitComma(s, cur) ==
    IF s = <<>> THEN <<cur>>
    ELSE IF Head(s) = "," THEN <<cur>> \o SplitComma(Tail(s), <<>>)
    ELSE SplitComma(Tail(s), Append(cur, Head(s)))

FilterBoolean(parts) == SelectSeq(parts, LAMBDA p : p # <<>>)

getParamNames(constructor) ==
    IF constructor.kind = "class" /\ HasConstructor(constructor)
    THEN FilterBoolean(SplitComma(StripLeadingSpace(ConstructorArgsText(constructor)), <<>>))
    ELSE <<>>

---------------------------------------------------------------------------
(* Container: lookups *)

Unbound == [bound |-> FALSE, value |-> StrA, shared |-> FALSE]
OverrideNames == {NameA, NameB}
NoOverrides == [n \in OverrideNames |-> Undefined]

(* parameters[name] *)
Override(parameters, name) ==
    IF name \in DOMAIN parameters THEN parameters[name] ELSE Undefined

typeof(x) == IF x.kind \in {"class", "function"} THEN "function" ELSE x.kind

isClass(fn) == typeof(fn) = "function" /\ fn.kind = "class"

getConcrete(abstract) ==
    IF bindings[abstract].bound THEN bindings[abstract].value ELSE abstract

isSharedAlways(abstract) == TRUE

isShared(abstract) ==
    IF bindings[abstract].bound THEN bindings[abstract].shared ELSE FALSE

(* isBuildable that takes every producer as buildable *)
isBuildableAlways(concrete, abstract) == TRUE

(* isBuildable that treats a producer equal to its identifier as an alias *)
isBuildableUnlessSelf(concrete, abstract) ==
    concrete # abstract /\ typeof(concrete) = "function"

isBuildable(concrete, abstract) == concrete = abstract \/ typeof(concrete) = "function"

has(inst, abstract) ==
    /\ abstract \in DOMAIN bindings
    /\ (bindings[abstract].bound \/ inst[abstract] # NoValue)

---------------------------------------------------------------------------
(* Container: make and build.  A call threads the record
   st = [instances, resolved, heap, trace] and yields [st, ok, val, err];
   trace lists, in order, the has() and make() calls build performs, the
   factories it calls and the constructors it instantiates, each with its
   nesting level: the make the caller issued is at level 0, its build at
   level 1, the resolution of that build's parameters at level 2. *)

Ret(st, v) == [st |-> st, ok |-> TRUE, val |-> v, err |-> NoError]
Throw(st, e) == [st |-> st, ok |-> FALSE, val |-> NoValue, err |-> e]
Log(st, ev, id, depth) ==
    [st EXCEPT !.trace = Append(@, [ev |-> ev, id |-> id, level |-> MaxDepth - depth])]

(* a build that calls the factory a second time and returns the second result *)
callFactoryTwice(concrete, st, depth) ==
    LET st1 == [Log(st, "call", concrete, depth) EXCEPT
                   !.heap = Append(@, [cls |-> concrete, args |-> <<>>])]
    IN  Ret([Log(st1, "call", concrete, depth) EXCEPT
                !.heap = Append(@, [cls |-> concrete, args |-> <<>>])],
            Obj(Len(st.heap) + 2))

(* (concrete as () => T)() *)
callFactory(concrete, st, depth) ==
    IF concrete = Hello
    THEN Ret(Log(st, "call", concrete, depth), HelloValue)
    ELSE Ret([Log(st, "call", concrete, depth) EXCEPT
                 !.heap = Append(@, [cls |-> concrete, args |-> <<>>])],
             Obj(Len(st.heap) + 1))

(* new constructor(...dependencies) *)
construct(constructor, dependencies, st, depth) ==
    IF constructor.kind # "class"
    THEN Throw(st, TypeError)
    ELSE Ret([Log(st, "new", constructor, depth) EXCEPT
                 !.heap = Append(@, [cls |-> constructor, args |-> dependencies])],
             Obj(Len(st.heap) + 1))

RECURSIVE make(_, _, _, _)
RECURSIVE build(_, _, _, _)
RECURSIVE resolveParams(_, _, _, _, _, _)

(* paramNames.map((name, index) => ...), from position at (1-based here;
   the error carries the 0-based index) *)
(* resolveParams that hands the overrides on to the make of a parameter *)
resolveParamsForwarding(paramNames, at, constructor, parameters, st, depth) ==
    IF at > Len(paramNames)
    THEN [st |-> st, ok |-> TRUE, vals |-> <<>>, err |-> NoError]
    ELSE LET name == paramNames[at]
             one == IF Override(parameters, name) # Undefined
                    THEN Ret(st, Override(parameters, name))
                    ELSE IF has(st.instances, Str(name))
                    THEN make(Str(name), parameters,
                              Log(Log(st, "has", Str(name), depth), "make", Str(name), depth),
                              depth)
                    ELSE Throw(Log(st, "has", Str(name), depth),
                               MissingDependency(name, at - 1, constructor.text))
         IN  IF ~one.ok
             THEN [st |-> one.st, ok |-> FALSE, vals |-> <<>>, err |-> one.err]
             ELSE LET rest == resolveParams(paramNames, at + 1, constructor,
                                            parameters, one.st, depth)
                  IN  IF ~rest.ok THEN rest
                      ELSE [rest EXCEPT !.vals = <<one.val>> \o @]

resolveParams(paramNames, at, constructor, parameters, st, depth) ==
    IF at > Len(paramNames)
    THEN [st |-> st, ok |-> TRUE, vals |-> <<>>, err |-> NoError]
    ELSE LET name == paramNames[at]
             one == IF Override(parameters, name) # Undefined
                    THEN Ret(st, Override(parameters, name))
                    ELSE IF has(st.instances, Str(name))
                    THEN make(Str(name), NoOverrides,
                              Log(Log(st, "has", Str(name), depth), "make", Str(name), depth),
                              depth)
                    ELSE Throw(Log(st, "has", Str(name), depth),
                               MissingDependency(name, at - 1, constructor.text))
         IN  IF ~one.ok
             THEN [st |-> one.st, ok |-> FALSE, vals |-> <<>>, err |-> one.err]
             ELSE LET rest == resolveParams(paramNames, at + 1, constructor,
                                            parameters, one.st, depth)
                  IN  IF ~rest.ok THEN rest
                      ELSE [rest EXCEPT !.vals = <<one.val>> \o @]

build(concrete, parameters, st, depth) ==
    IF depth = 0 THEN Throw(st, RangeError)
    ELSE IF typeof(concrete) = "function" /\ ~isClass(concrete)
    THEN callFactory(concrete, st, depth)
    ELSE LET paramNames == getParamNames(concrete)
             deps == resolveParams(paramNames, 1, concrete, parameters, st, depth - 1)
         IN  IF ~deps.ok THEN Throw(deps.st, deps.err)
             ELSE construct(concrete, deps.vals, deps.st, depth)

(* make without the cached-instance short cut of line 141 *)
makeIgnoringCache(abstract, parameters, st, depth) ==
    IF depth = 0 THEN Throw(st, RangeError)
    ELSE LET concrete == getConcrete(abstract)
             r == IF isBuildable(concrete, abstract)
                  THEN build(concrete, parameters, st, depth - 1)
                  ELSE make(concrete, NoOverrides, Log(st, "make", concrete, depth),
                            depth - 1)
         IN  IF ~r.ok THEN r
             ELSE Ret([r.st EXCEPT
                          !.instances = IF isShared(abstract)
                                        THEN [@ EXCEPT ![abstract] = r.val]
                                        ELSE @,
                          !.resolved = @ \cup {abstract}],
                      r.val)

(* make without the caching of line 144 *)
makeNeverCaching(abstract, parameters, st, depth) ==
    IF depth = 0 THEN Throw(st, RangeError)
    ELSE IF st.instances[abstract] # NoValue
    THEN Ret(st, st.instances[abstract])
    ELSE LET concrete == getConcrete(abstract)
             r == IF isBuildable(concrete, abstract)
                  THEN build(concrete, parameters, st, depth - 1)
                  ELSE make(concrete, NoOverrides, Log(st, "make", concrete, depth),
                            depth - 1)
         IN  IF ~r.ok THEN r
             ELSE Ret([r.st EXCEPT !.resolved = @ \cup {abstract}], r.val)

(* make that looks the cache up under the producer, not the identifier *)
makeCacheByConcrete(abstract, parameters, st, depth) ==
    IF depth = 0 THEN Throw(st, RangeError)
    ELSE IF st.instances[getConcrete(abstract)] # NoValue
    THEN Ret(st, st.instances[getConcrete(abstract)])
    ELSE LET concrete == getConcrete(abstract)
             r == IF isBuildable(concrete, abstract)
                  THEN build(concrete, parameters, st, depth - 1)
                  ELSE make(concrete, NoOverrides, Log(st, "make", concrete, depth),
                            depth - 1)
         IN  IF ~r.ok THEN r
             ELSE Ret([r.st EXCEPT
                          !.instances = IF isShared(abstract)
                                        THEN [@ EXCEPT ![abstract] = r.val]
                                        ELSE @,
                          !.resolved = @ \cup {abstract}],
                      r.val)

(* make that records the identifier as resolved only when it did not cache *)
makeResolvedUnlessCached(abstract, parameters, st, depth) ==
    IF depth = 0 THEN Throw(st, RangeError)
    ELSE IF st.instances[abstract] # NoValue
    THEN Ret(st, st.instances[abstract])
    ELSE LET concrete == getConcrete(abstract)
             r == IF isBuildable(concrete, abstract)
                  THEN build(concrete, parameters, st, depth - 1)
                  ELSE make(concrete, NoOverrides, Log(st, "make", concrete, depth),
                            depth - 1)
         IN  IF ~r.ok THEN r
             ELSE IF isShared(abstract)
             THEN Ret([r.st EXCEPT !.instances = [@ EXCEPT ![abstract] = r.val]], r.val)
             ELSE Ret([r.st EXCEPT !.resolved = @ \cup {abstract}], r.val)

(* make that caches what it built whether or not the binding is shared *)
makeCachingAlways(abstract, parameters, st, depth) ==
    IF depth = 0 THEN Throw(st, RangeError)
    ELSE IF st.instances[abstract] # NoValue
    THEN Ret(st, st.instances[abstract])
    ELSE LET concrete == getConcrete(abstract)
             r == IF isBuildable(concrete, abstract)
                  THEN build(concrete, parameters, st, depth - 1)
                  ELSE make(concrete, NoOverrides, Log(st, "make", concrete, depth),
                            depth - 1)
         IN  IF ~r.ok THEN r
             ELSE Ret([r.st EXCEPT
                          !.instances = [@ EXCEPT ![abstract] = r.val],
                          !.resolved = @ \cup {abstract}],
                      r.val)

make(abstract, parameters, st, depth) ==
    IF depth = 0 THEN Throw(st, RangeError)
    ELSE IF st.instances[abstract] # NoValue
    THEN Ret(st, st.instances[abstract])
    ELSE LET concrete == getConcrete(abstract)
             r == IF isBuildable(concrete, abstract)
                  THEN build(concrete, parameters, st, depth - 1)
                  ELSE make(concrete, NoOverrides, Log(st, "make", concrete, depth),
                            depth - 1)
         IN  IF ~r.ok THEN r
             ELSE Ret([r.st EXCEPT
                          !.instances = IF isShared(abstract)
                                        THEN [@ EXCEPT ![abstract] = r.val]
                                        ELSE @,
                          !.resolved = @ \cup {abstract}],
                      r.val)

(* bindings.set(abstract, {value: concrete, shared: !!shared}) *)
bind(table, abstract, concrete, shared) ==
    [table EXCEPT ![abstract] = [bound |-> TRUE, value |-> concrete, shared |-> shared]]

singleton(table, abstract, concrete) == bind(table, abstract, concrete, TRUE)

(* instance() without resolved.add *)
instanceUnrecorded(st, abstract, object) ==
    [st EXCEPT !.instances = [@ EXCEPT ![abstract] = object]]

(* instances.set(abstract, instance); resolved.add(abstract) *)
instance(st, abstract, object) ==
    [st EXCEPT !.instances = [@ EXCEPT ![abstract] = object],
               !.resolved = @ \cup {abstract}]

---------------------------------------------------------------------------
(* Container: the state machine *)

Idle == [op |-> "new", abstract |-> StrA, concrete |-> StrA, shared |-> FALSE,
         parameters |-> NoOverrides, object |-> NoValue,
         ok |-> TRUE, val |-> NoValue, err |-> NoError, trace |-> <<>>,
         hit |-> FALSE, preHeap |-> 0, prev |-> NoValue]

ContainerInit ==
    /\ bindings = [x \in Ids |-> Unbound]
    /\ instances = [x \in Ids |-> NoValue]
    /\ resolved = {}
    /\ buildStack = <<>>
    /\ heap = <<>>
    /\ last = Idle
    /\ registered = [x \in Ids |-> NoValue]
    /\ sharedFirst = [x \in Ids |-> NoValue]
    /\ rebound = [x \in Ids |-> FALSE]
    /\ made = [x \in Ids |-> NoValue]
    /\ nops = 0

(* a bind that also drops the identifier's cache entry *)
BindEvicting(abstract, concrete, shared) ==
    /\ nops < MaxOps
    /\ bindings' = bind(bindings, abstract, concrete, shared)
    /\ instances' = [instances EXCEPT ![abstract] = NoValue]
    /\ last' = [Idle EXCEPT !.op = "bind", !.abstract = abstract,
                            !.concrete = concrete, !.shared = shared]
    /\ rebound' = [rebound EXCEPT ![abstract] = @ \/ instances[abstract] # NoValue]
    /\ nops' = nops + 1
    /\ UNCHANGED <<resolved, buildStack, heap, registered, sharedFirst, made>>
    /\ UNCHANGED <<pvars, avars, lvars>>

Bind(abstract, concrete, shared) ==
    /\ nops < MaxOps
    /\ bindings' = bind(bindings, abstract, concrete, shared)
    /\ last' = [Idle EXCEPT !.op = "bind", !.abstract = abstract,
                            !.concrete = concrete, !.shared = shared]
    /\ rebound' = [rebound EXCEPT ![abstract] = @ \/ instances[abstract] # NoValue]
    /\ nops' = nops + 1
    /\ UNCHANGED <<instances, resolved, buildStack, heap, registered, sharedFirst, made>>
    /\ UNCHANGED <<pvars, avars, lvars>>

Singleton(abstract, concrete) ==
    /\ nops < MaxOps
    /\ bindings' = singleton(bindings, abstract, concrete)
    /\ last' = [Idle EXCEPT !.op = "bind", !.abstract = abstract,
                            !.concrete = concrete, !.shared = TRUE]
    /\ rebound' = [rebound EXCEPT ![abstract] = @ \/ instances[abstract] # NoValue]
    /\ nops' = nops + 1
    /\ UNCHANGED <<instances, resolved, buildStack, heap, registered, sharedFirst, made>>
    /\ UNCHANGED <<pvars, avars, lvars>>

(* instance(abstract, object): object is a value the caller holds: a
   primitive, an object made earlier, or one the caller has just created *)
Instance(abstract, object) ==
    /\ nops < MaxOps
    /\ object.t = "obj" => object.id <= MaxObjs
    /\ LET h == IF object.t = "obj" /\ object.id > Len(heap)
                THEN Append(heap, [cls |-> CallerObject, args |-> <<>>])
                ELSE heap
           st == instance([instances |-> instances, resolved |-> resolved,
                           heap |-> h, trace |-> <<>>], abstract, object)
       IN  /\ instances' = st.instances
           /\ resolved' = st.resolved
           /\ heap' = st.heap
    /\ last' = [Idle EXCEPT !.op = "instance", !.abstract = abstract,
                            !.object = object, !.preHeap = Len(heap)]
    /\ registered' = [registered EXCEPT ![abstract] = object]
    /\ sharedFirst' = [sharedFirst EXCEPT ![abstract] = NoValue]
    /\ nops' = nops + 1
    /\ UNCHANGED <<bindings, buildStack, rebound, made>>
    /\ UNCHANGED <<pvars, avars, lvars>>

Make(abstract, parameters) ==
    /\ nops < MaxOps
    /\ LET r == make(abstract, parameters,
                     [instances |-> instances, resolved |-> resolved,
                      heap |-> heap, trace |-> <<>>], MaxDepth)
       IN  /\ Len(r.st.heap) <= MaxObjs
           /\ instances' = r.st.instances
           /\ resolved' = r.st.resolved
           /\ heap' = r.st.heap
           /\ last' = [Idle EXCEPT !.op = "make", !.abstract = abstract,
                                   !.parameters = parameters,
                                   !.ok = r.ok, !.val = r.val, !.err = r.err,
                                   !.trace = r.st.trace,
                                   !.hit = instances[abstract] # NoValue,
                                   !.preHeap = Len(heap),
                                   !.prev = made[abstract]]
           /\ made' = IF r.ok THEN [made EXCEPT ![abstract] = r.val] ELSE made
           /\ sharedFirst' = IF r.ok /\ isShared(abstract) /\ sharedFirst[abstract] = NoValue
                             THEN [sharedFirst EXCEPT ![abstract] = r.val]
                             ELSE sharedFirst
    /\ nops' = nops + 1
    /\ UNCHANGED <<bindings, buildStack, registered, rebound>>
    /\ UNCHANGED <<pvars, avars, lvars>>

(* The inputs the operations are driven with *)
BindPairs == {<<Foo, Foo>>, <<StrA, Foo>>, <<StrA, StrB>>, <<StrA, Fresh>>,
              <<StrB, Foo>>, <<StrB, Baz>>, <<StrB, StrA>>}
InstanceKeys == {StrB, Foo}
MakeTargets == {StrA, StrB, Foo, Baz, Two}
CallerValues == {Nova, Obj(Len(heap) + 1)}
OverrideSets == {NoOverrides, [NoOverrides EXCEPT ![NameB] = Nova],
                 [n \in OverrideNames |-> Nova]}

(* The inputs for makes with overrides: a class whose parameter is bound to
   a class that declares another parameter, and a class identifier bound to
   a name as an alias *)
NestedBindPairs == {<<StrA, Fresh>>, <<StrB, Dep>>, <<Foo, StrB>>}
NestedMakeTargets == {Foo, Baz, Dep}
NestedOverrideSets == {NoOverrides, [NoOverrides EXCEPT ![NameA] = Nova],
                       [NoOverrides EXCEPT ![NameB] = Nova]}

NestedNext ==
    \/ \E p \in NestedBindPairs, shared \in BOOLEAN : Bind(p[1], p[2], shared)
    \/ \E abstract \in NestedMakeTargets, parameters \in NestedOverrideSets :
          Make(abstract, parameters)

Next ==
    \/ \E p \in BindPairs, shared \in BOOLEAN : Bind(p[1], p[2], shared)
    \/ \E p \in BindPairs : Singleton(p[1], p[2])
    \/ \E abstract \in InstanceKeys, object \in CallerValues : Instance(abstract, object)
    \/ \E abstract \in MakeTargets, parameters \in OverrideSets : Make(abstract, parameters)


---------------------------------------------------------------------------
(* Pipeline: pipes and payloads.  A pipe is a shape and a body:
     shape  "class"     a class whose instances have handle(payload, next)
            "arrow"     an (async) arrow function: not constructible
            "function"  a plain function: also constructible with new
     body   "forward"   return next(payload + mark)
            "twice"     await next(payload + mark); return next(payload + mark + mark)
            "stop"      return payload + mark
            "throw"     throw new Error(...)
            "catch"     try { return await next(payload + mark) } catch { return payload + mark }
            "fork"      next(payload + mark); return next(payload + mark + mark)
                        (the first call is not awaited)
   A payload is the sequence of the marks put on it. *)

Shapes == {"class", "arrow", "function"}
Bodies == {"forward", "twice", "stop", "throw", "catch"}
Pipes == [shape : Shapes, body : Bodies]
Seed == [shape : {"value"}, body : {"x"}]
UndefinedPayload == <<[shape |-> "value", body |-> "undefined"]>>
Payloads == {<<m>> : m \in Seed}

RECURSIVE SeqsUpTo(_, _)
SeqsUpTo(S, n) ==
    IF n = 0 THEN {<<>>}
    ELSE LET shorter == SeqsUpTo(S, n - 1)
         IN  shorter \cup {Append(q, x) : q \in {t \in shorter : Len(t) = n - 1}, x \in S}
PipeLists == SeqsUpTo(Pipes, MaxPipes)

Mark(value, pipe) == Append(value, pipe)

DoubleInvocation == [kind |-> "DoubleInvocation", at |-> 0]
PipeError(i) == [kind |-> "PipeError", at |-> i]
(* TypeError: Class constructor X cannot be invoked without 'new', or
   TypeError: pipe is not a function when this.pipes[i] is undefined *)
NotCallable(i) == [kind |-> "TypeError", at |-> i]
NoPipeError == [kind |-> "", at |-> 0]

IdleCtl == [k |-> "idle", i |-> 0, v |-> <<>>, e |-> NoPipeError]
CallCtl(i, v) == [k |-> "call", i |-> i, v |-> v, e |-> NoPipeError]
RetCtl(v) == [k |-> "ret", i |-> 0, v |-> v, e |-> NoPipeError]
ThrowCtl(e) == [k |-> "throw", i |-> 0, v |-> <<>>, e |-> e]
DoneCtl(v) == [k |-> "done", i |-> 0, v |-> v, e |-> NoPipeError]
FailedCtl(e) == [k |-> "failed", i |-> 0, v |-> <<>>, e |-> e]

(* log entries: pipe i entered (how: "new" as a constructor with no
   arguments, "handle" as instance.handle(v, next), "call" as pipe(v, next),
   "fallback" as pipe(v, next) from the catch block after handle failed);
   "next": pipe i called its continuation with v (thenReturn's own
   dispatch(0, payload) is logged as a "next" of i = -1);
   "rejected": dispatch(i, v) threw the double-invocation error *)
Entered(r, i, how, v) == [r EXCEPT !.log = Append(@, [ev |-> how, i |-> i, v |-> v])]
Forwarded(r, i, v) == [r EXCEPT !.log = Append(@, [ev |-> "next", i |-> i, v |-> v])]

---------------------------------------------------------------------------
(* Pipeline.thenReturn: the run record r = [index, stack, ctl, log] *)

(* an error leaves the body of pipe i, entered as `how` *)
raise(pipe, how, i, e, r) ==
    IF how = "handle"
    THEN \* catch (_e) { return await (pipe as PipeHandler<T>)(value, next) }
         [Entered(r, i, "fallback", <<>>) EXCEPT !.ctl = ThrowCtl(NotCallable(i))]
    ELSE [r EXCEPT !.ctl = ThrowCtl(e)]

(* the body of pipe i runs with (value, next) *)
enter(pipe, how, i, value, r) ==
    LET r1 == Entered(r, i, how, value) IN
    CASE pipe.body \in {"forward", "twice", "catch"} ->
            [Forwarded(r1, i, Mark(value, pipe)) EXCEPT
                !.stack = Append(@, [i |-> i, value |-> value, pipe |-> pipe,
                                     how |-> how, calls |-> 1]),
                !.ctl = CallCtl(i + 1, Mark(value, pipe))]
      [] pipe.body = "fork" ->
            \* the first call; the frame keeps room for the chain that call
            \* started (orphan) and for the outcome of the second call (pend)
            [Forwarded(r1, i, Mark(value, pipe)) EXCEPT
                !.stack = Append(@, [i |-> i, value |-> value, pipe |-> pipe,
                                     how |-> how, calls |-> 1,
                                     orphan |-> [ctl |-> IdleCtl, stack |-> <<>>],
                                     pend |-> IdleCtl]),
                !.ctl = CallCtl(i + 1, Mark(value, pipe))]
      [] pipe.body = "stop" -> [r1 EXCEPT !.ctl = RetCtl(Mark(value, pipe))]
      [] pipe.body = "throw" -> raise(pipe, how, i, PipeError(i), r1)

(* dispatch that sets the marker only when it has reached the end of the
   chain, not before it runs the pipe *)
dispatchMarkingAtEnd(ps, i, value, r) ==
    IF i <= r.index
    THEN [Entered(r, i, "rejected", value) EXCEPT !.ctl = ThrowCtl(DoubleInvocation)]
    ELSE IF i = Len(ps) THEN [r EXCEPT !.index = i, !.ctl = RetCtl(value)]
    ELSE IF i > Len(ps) THEN [r EXCEPT !.ctl = ThrowCtl(NotCallable(i))]
    ELSE LET pipe == ps[i + 1] IN
         CASE pipe.shape = "class" -> enter(pipe, "handle", i, value, r)
           [] pipe.shape = "arrow" -> enter(pipe, "call", i, value, r)
           [] pipe.shape = "function" ->
                enter(pipe, "call", i, value, Entered(r, i, "new", UndefinedPayload))

(* dispatch without the guard of lines 101-103 *)
dispatchUnguarded(ps, i, value, r) ==
    LET r1 == [r EXCEPT !.index = i] IN
    IF i = Len(ps) THEN [r1 EXCEPT !.ctl = RetCtl(value)]
    ELSE IF i > Len(ps) THEN [r1 EXCEPT !.ctl = ThrowCtl(NotCallable(i))]
    ELSE LET pipe == ps[i + 1] IN
         CASE pipe.shape = "class" -> enter(pipe, "handle", i, value, r1)
           [] pipe.shape = "arrow" -> enter(pipe, "call", i, value, r1)
           [] pipe.shape = "function" ->
                enter(pipe, "call", i, value, Entered(r1, i, "new", UndefinedPayload))

(* dispatch that hands every pipe the pipeline's payload instead of value *)
dispatchStalePayload(ps, i, value, r) ==
    IF i <= r.index
    THEN [Entered(r, i, "rejected", value) EXCEPT !.ctl = ThrowCtl(DoubleInvocation)]
    ELSE dispatchUnguarded(ps, i, IF i = Len(ps) THEN value ELSE payload, r)

(* dispatch whose guard is i < index *)
dispatchRejectingBelow(ps, i, value, r) ==
    IF i < r.index
    THEN [Entered(r, i, "rejected", value) EXCEPT !.ctl = ThrowCtl(DoubleInvocation)]
    ELSE dispatchUnguarded(ps, i, value, r)

(* dispatch(i, value); pipe i of the source is ps[i + 1] *)
dispatch(ps, i, value, r) ==
    IF i <= r.index
    THEN [Entered(r, i, "rejected", value) EXCEPT !.ctl = ThrowCtl(DoubleInvocation)]
    ELSE LET r1 == [r EXCEPT !.index = i] IN
         IF i = Len(ps) THEN [r1 EXCEPT !.ctl = RetCtl(value)]
         ELSE IF i > Len(ps)
         THEN \* this.pipes[i] is undefined: new undefined() and undefined(value, next)
              \* both throw a TypeError, the second one leaves dispatch
              [r1 EXCEPT !.ctl = ThrowCtl(NotCallable(i))]
         ELSE LET pipe == ps[i + 1] IN
              CASE pipe.shape = "class" -> enter(pipe, "handle", i, value, r1)
                [] pipe.shape = "arrow" -> enter(pipe, "call", i, value, r1)
                [] pipe.shape = "function" ->
                     \* new pipe() runs the body with no arguments and fails
                     enter(pipe, "call", i, value, Entered(r1, i, "new", UndefinedPayload))

Pop(r) == [r EXCEPT !.stack = SubSeq(@, 1, Len(@) - 1)]
Top(r) == r.stack[Len(r.stack)]

(* the frames of pipes that called their continuation without awaiting it
   and have not yet made their second call *)
Forked(r) == {k \in 1..Len(r.stack) : r.stack[k].pipe.body = "fork" /\ r.stack[k].calls = 1}

(* the chain started by the first call of a "fork" pipe has run up to its
   first suspension (a promise above it has settled: r.ctl); control is back
   in the innermost such pipe, which makes its second call.  What is left of
   the first chain is set aside in the frame. *)
secondCall(r) ==
    LET k == CHOOSE m \in Forked(r) : \A n \in Forked(r) : n <= m
        f == r.stack[k]
        v2 == Mark(Mark(f.value, f.pipe), f.pipe)
    IN  [Forwarded(r, f.i, v2) EXCEPT
            !.stack = Append(SubSeq(r.stack, 1, k - 1),
                             [f EXCEPT !.calls = 2,
                                       !.orphan = [ctl |-> r.ctl,
                                                   stack |-> SubSeq(r.stack, k + 1, Len(r.stack))]]),
            !.ctl = CallCtl(f.i + 1, v2)]

(* the second call of the "fork" pipe on top of the stack has settled
   (r.ctl): the pipe returns that promise; the chain of its first call, which
   nobody awaits, runs on *)
runOrphan(r) ==
    LET f == Top(r) IN
    [r EXCEPT !.stack = SubSeq(@, 1, Len(@) - 1)
                            \o <<[f EXCEPT !.calls = 3, !.pend = r.ctl]>> \o f.orphan.stack,
              !.ctl = f.orphan.ctl]

(* the chain of the first call has come back to the "fork" pipe on top of the
   stack: its outcome is dropped and the pipe settles as its second call did *)
settleFork(r) ==
    LET f == Top(r) IN
    IF f.pend.k = "ret" THEN [Pop(r) EXCEPT !.ctl = RetCtl(f.pend.v)]
    ELSE raise(f.pipe, f.how, f.i, f.pend.e, Pop(r))

(* resume that hands the waiting pipe its own input, not what came back *)
resumeLosingValue(r, v) ==
    LET f == Top(r) IN
    IF f.pipe.body = "twice" /\ f.calls = 1
    THEN LET v2 == Mark(Mark(f.value, f.pipe), f.pipe) IN
         [Forwarded(r, f.i, v2) EXCEPT
             !.stack = [@ EXCEPT ![Len(@)] = [f EXCEPT !.calls = 2]],
             !.ctl = CallCtl(f.i + 1, v2)]
    ELSE [Pop(r) EXCEPT !.ctl = RetCtl(f.value)]

(* the promise of next(...) resolves with v in the pipe on top of the stack *)
resume(r, v) ==
    LET f == Top(r) IN
    IF Forked(r) # {} THEN secondCall(r)
    ELSE IF f.pipe.body = "fork" THEN (IF f.calls = 2 THEN runOrphan(r) ELSE settleFork(r))
    ELSE IF f.pipe.body = "twice" /\ f.calls = 1
    THEN LET v2 == Mark(Mark(f.value, f.pipe), f.pipe) IN
         [Forwarded(r, f.i, v2) EXCEPT
             !.stack = [@ EXCEPT ![Len(@)] = [f EXCEPT !.calls = 2]],
             !.ctl = CallCtl(f.i + 1, v2)]
    ELSE [Pop(r) EXCEPT !.ctl = RetCtl(v)]

(* the promise of next(...) rejects with e in the pipe on top of the stack *)
reject(r, e) ==
    LET f == Top(r) IN
    IF Forked(r) # {} THEN secondCall(r)
    ELSE IF f.pipe.body = "fork" THEN (IF f.calls = 2 THEN runOrphan(r) ELSE settleFork(r))
    ELSE IF f.pipe.body = "catch"
    THEN [Pop(r) EXCEPT !.ctl = RetCtl(Mark(f.value, f.pipe))]
    ELSE raise(f.pipe, f.how, f.i, e, Pop(r))

Run == [index |-> index, stack |-> stack, ctl |-> ctl, log |-> log]
(* a run whose highest-index marker starts at 0 *)
NewRunAtZero == [index |-> 0, stack |-> <<>>, ctl |-> IdleCtl, log |-> <<>>]
NewRun == [index |-> -1, stack |-> <<>>, ctl |-> IdleCtl, log |-> <<>>]
Running == ctl.k \in {"call", "ret", "throw"}

SetRun(r) ==
    /\ index' = r.index
    /\ stack' = r.stack
    /\ ctl' = r.ctl
    /\ log' = r.log

PipelineInit ==
    /\ pipes = <<>>
    /\ payload = UndefinedPayload
    /\ index = -1
    /\ stack = <<>>
    /\ ctl = IdleCtl
    /\ log = <<>>
    /\ runs = 0
    /\ began = [pipes |-> <<>>, payload |-> UndefinedPayload]

---------------------------------------------------------------------------
(* Logger (logger.ts) *)

Levels == {"info", "error", "warning", "debug", "notice"}

(* payload.level.toUpperCase() *)
toUpperCase(level) ==
    CASE level = "info" -> "INFO"
      [] level = "error" -> "ERROR"
      [] level = "warning" -> "WARNING"
      [] level = "debug" -> "DEBUG"
      [] level = "notice" -> "NOTICE"

(* a message is a sequence of words, a context the set of its keys *)
Messages == {<<"Hello">>}
Contexts == {{}, {"user"}}

(* JSON.stringify(context) *)
JSONstringify(context) ==
    IF context = {} THEN <<"{", "}">> ELSE <<"{">> \o <<CHOOSE k \in context : TRUE>> \o <<"}">>

(* getDateFilename() on a given day: app-YYYY-MM-DD.log *)
getDateFilename(day) == [name |-> "app", day |-> day, ext |-> "log"]

(* a log pipe is an object with a handle method or a function; it forwards
   the record with its mark on the message ("forward"), forwards it with the
   context emptied ("strip"), returns without forwarding ("stop") or forwards
   twice, one call after the other ("twice") *)
LogPipes == {[shape |-> "object", body |-> "forward"],
             [shape |-> "function", body |-> "forward"],
             [shape |-> "function", body |-> "strip"],
             [shape |-> "object", body |-> "stop"],
             [shape |-> "function", body |-> "twice"]}
LogPipeLists == SeqsUpTo(LogPipes, MaxLogPipes)

Touch(record, pipe) ==
    IF pipe.body = "strip" THEN [record EXCEPT !.context = {}]
    ELSE [record EXCEPT !.message = Append(@, pipe.shape)]

LogEvent(st, ev, i, record) ==
    [st EXCEPT !.trace = Append(@, [ev |-> ev, i |-> i, payload |-> record])]

(* writeToFile that appends the context whether it is empty or not *)
writeToFileWithContext(record, st) ==
    LET line == <<"[", "timestamp", "] ", toUpperCase(record.level), ": ">>
                    \o record.message
        context == <<" | ">> \o JSONstringify(record.context)
    IN  [st EXCEPT !.written = Append(@, [file |-> stream, on |-> today,
                                          timestamp |-> record.timestamp,
                                          text |-> line \o context])]

(* writeToFile(payload): one line to the stream opened by the constructor *)
writeToFile(record, st) ==
    LET line == <<"[", "timestamp", "] ", toUpperCase(record.level), ": ">>
                    \o record.message
        context == IF record.context # {}
                   THEN <<" | ">> \o JSONstringify(record.context)
                   ELSE <<>>
    IN  [st EXCEPT !.written = Append(@, [file |-> stream, on |-> today,
                                          timestamp |-> record.timestamp,
                                          text |-> line \o context])]

(* a dispatch guarded as Pipeline's is: an index that has been dispatched
   before in this call is not dispatched again *)
RECURSIVE ldispatchGuarded(_, _, _, _)
ldispatchGuarded(ps, at, record, st) ==
    IF \E k \in 1..Len(st.trace) : st.trace[k].ev # "next" /\ st.trace[k].i >= at
    THEN st
    ELSE IF at = Len(ps) THEN writeToFile(record, LogEvent(st, "write", at, record))
    ELSE LET pipe == ps[at + 1]
             st1 == LogEvent(st, IF pipe.shape = "function" THEN "function" ELSE "handle",
                             at, record)
             p1 == Touch(record, pipe)
             p2 == Touch(p1, pipe)
         IN  CASE pipe.body \in {"forward", "strip"} ->
                     ldispatchGuarded(ps, at + 1, p1, LogEvent(st1, "next", at, p1))
               [] pipe.body = "stop" -> st1
               [] pipe.body = "twice" ->
                     LET first == ldispatchGuarded(ps, at + 1, p1, LogEvent(st1, "next", at, p1))
                     IN  ldispatchGuarded(ps, at + 1, p2, LogEvent(first, "next", at, p2))

(* Logger.dispatch(index, payload), on st = [written, trace]; pipe index of
   the source is ps[at + 1] *)
RECURSIVE ldispatch(_, _, _, _)
ldispatch(ps, at, record, st) ==
    IF at = Len(ps) THEN writeToFile(record, LogEvent(st, "write", at, record))
    ELSE LET pipe == ps[at + 1]
             st1 == LogEvent(st, IF pipe.shape = "function" THEN "function" ELSE "handle",
                             at, record)
             p1 == Touch(record, pipe)
             p2 == Touch(p1, pipe)
         IN  CASE pipe.body \in {"forward", "strip"} ->
                     ldispatch(ps, at + 1, p1, LogEvent(st1, "next", at, p1))
               [] pipe.body = "stop" -> st1
               [] pipe.body = "twice" ->
                     LET first == ldispatch(ps, at + 1, p1, LogEvent(st1, "next", at, p1))
                     IN  ldispatch(ps, at + 1, p2, LogEvent(first, "next", at, p2))

NoLogCall == [level |-> "", message |-> <<>>, context |-> {}, at |-> 0,
              before |-> 0, trace |-> <<>>]

(* new Logger(logDir): the stream is opened on the file of the day of
   construction *)
LoggerInit ==
    /\ lpipes = <<>>
    /\ today = 1
    /\ stream = getDateFilename(1)
    /\ written = <<>>
    /\ lcall = NoLogCall
    /\ nlogs = 0

(* the Application part of an object that is not an Application, and of a
   newly constructed Application *)
Providers == {"events", "pipeline"}
NotCalled == [op |-> "", provider |-> "", force |-> FALSE, ok |-> TRUE,
              err |-> NoError, returned |-> FALSE]

ApplicationFields ==
    /\ serviceProviders = [p \in Providers |-> FALSE]
    /\ loadedProviders = [p \in Providers |-> FALSE]
    /\ booted = FALSE
    /\ hooks = [p \in Providers |-> 0]
    /\ called = NotCalled

Init == ContainerInit /\ PipelineInit /\ ApplicationFields /\ LoggerInit

Spec == Init /\ [][Next]_vars
NestedSpec == Init /\ [][NestedNext]_vars

Send(v) ==
    /\ ~Running
    /\ payload' = v
    /\ UNCHANGED <<pipes, index, stack, ctl, log, runs, began>>
    /\ UNCHANGED <<cvars, avars, lvars>>

(* through(pipes) is called on a pipeline that has no pipes and has not run *)
Unconfigured == ~Running /\ pipes = <<>> /\ runs = 0

Through(ps) ==
    /\ Unconfigured
    /\ pipes' = ps
    /\ UNCHANGED <<payload, index, stack, ctl, log, runs, began>>
    /\ UNCHANGED <<cvars, avars, lvars>>

(* thenReturn with the marker kept on the instance across calls *)
ThenReturnKeepingIndex ==
    /\ ~Running
    /\ runs < MaxRuns
    /\ runs' = runs + 1
    /\ SetRun(dispatch(pipes, 0, payload,
                       Forwarded([NewRun EXCEPT !.index = index], -1, payload)))
    /\ began' = [pipes |-> pipes, payload |-> payload]
    /\ UNCHANGED <<pipes, payload>>
    /\ UNCHANGED <<cvars, avars, lvars>>

ThenReturn ==
    /\ ~Running
    /\ runs < MaxRuns
    /\ runs' = runs + 1
    /\ SetRun(dispatch(pipes, 0, payload, Forwarded(NewRun, -1, payload)))
    /\ began' = [pipes |-> pipes, payload |-> payload]
    /\ UNCHANGED <<pipes, payload>>
    /\ UNCHANGED <<cvars, avars, lvars>>

Dispatch ==
    /\ ctl.k = "call"
    /\ SetRun(dispatch(pipes, ctl.i, ctl.v, Run))
    /\ UNCHANGED <<pipes, payload, runs, began>>
    /\ UNCHANGED <<cvars, avars, lvars>>

Resume ==
    /\ ctl.k = "ret"
    /\ stack # <<>>
    /\ SetRun(resume(Run, ctl.v))
    /\ UNCHANGED <<pipes, payload, runs, began>>
    /\ UNCHANGED <<cvars, avars, lvars>>

Reject ==
    /\ ctl.k = "throw"
    /\ stack # <<>>
    /\ SetRun(reject(Run, ctl.e))
    /\ UNCHANGED <<pipes, payload, runs, began>>
    /\ UNCHANGED <<cvars, avars, lvars>>

(* the promise thenReturn returned settles *)
Settle ==
    /\ ctl.k \in {"ret", "throw"}
    /\ stack = <<>>
    /\ ctl' = IF ctl.k = "ret" THEN DoneCtl(ctl.v) ELSE FailedCtl(ctl.e)
    /\ UNCHANGED <<pipes, payload, index, stack, log, runs, began>>
    /\ UNCHANGED <<cvars, avars, lvars>>

PipeNext ==
    \/ \E v \in Payloads : Send(v)
    \/ (Unconfigured /\ \E ps \in PipeLists : Through(ps))
    \/ ThenReturn
    \/ Dispatch
    \/ Resume
    \/ Reject
    \/ Settle

PipeSpec == Init /\ [][PipeNext]_vars

---------------------------------------------------------------------------
(* Pipeline: runs through pipes that call their continuation twice without
   awaiting the first call *)

ForkPipes == {[shape |-> "arrow", body |-> "fork"],
              [shape |-> "class", body |-> "fork"],
              [shape |-> "arrow", body |-> "forward"],
              [shape |-> "class", body |-> "twice"],
              [shape |-> "arrow", body |-> "catch"],
              [shape |-> "arrow", body |-> "stop"]}
ForkLists == SeqsUpTo(ForkPipes, MaxPipes)

ForkNext ==
    \/ (Unconfigured /\ \E ps \in ForkLists : Through(ps))
    \/ \E v \in Payloads : Send(v)
    \/ ThenReturn
    \/ Dispatch
    \/ Resume
    \/ Reject
    \/ Settle

ForkSpec == Init /\ [][ForkNext]_vars

---------------------------------------------------------------------------
(* Pipeline: calls made on the instance while one of its runs is suspended *)

(* send(v) while a pipe of the running chain has not yet called its
   continuation *)
SendDuringRun(v) ==
    /\ ctl.k = "call"
    /\ payload # v
    /\ payload' = v
    /\ UNCHANGED <<pipes, index, stack, ctl, log, runs, began>>
    /\ UNCHANGED <<cvars, avars, lvars>>

(* through(ps) at such a moment *)
ThroughDuringRun(ps) ==
    /\ ctl.k = "call"
    /\ pipes # ps
    /\ pipes' = ps
    /\ UNCHANGED <<payload, index, stack, ctl, log, runs, began>>
    /\ UNCHANGED <<cvars, avars, lvars>>

(* the pipes the overlapping calls are driven with *)
OverlapPipes == {[shape |-> "arrow", body |-> "forward"],
                 [shape |-> "class", body |-> "forward"],
                 [shape |-> "arrow", body |-> "stop"]}
OverlapLists == SeqsUpTo(OverlapPipes, MaxPipes)
Replacements == {<<>>, <<[shape |-> "arrow", body |-> "forward"],
                         [shape |-> "arrow", body |-> "stop"]>>}

OverlapNext ==
    \/ \E v \in Payloads : Send(v)
    \/ (Unconfigured /\ \E ps \in OverlapLists : Through(ps))
    \/ ThenReturn
    \/ Dispatch
    \/ Resume
    \/ Reject
    \/ Settle
    \/ \E v \in Payloads : SendDuringRun(v)
    \/ \E ps \in Replacements : ThroughDuringRun(ps)

OverlapSpec == Init /\ [][OverlapNext]_vars

---------------------------------------------------------------------------
(* Application (application.ts): a Container with a provider table *)

StrApp == Str(<<"app">>)
ContainerClass == Cls(<<"Container">>)
LoggerClass == Cls(<<"Logger">>)
EmitterClass == Cls(<<"Emitter">>)
BaseIds == {StrApp, ContainerClass, LoggerClass, EmitterClass}
AppIds == Ids \cup BaseIds

(* the objects registerBaseBindings registers: the application itself, a new
   Logger and a new Emitter *)
ThisApp == [t |-> "host", id |-> 1]
TheLogger == [t |-> "host", id |-> 2]
TheEmitter == [t |-> "host", id |-> 3]
BaseInstance(x) ==
    CASE x = StrApp -> ThisApp
      [] x = ContainerClass -> ThisApp
      [] x = LoggerClass -> TheLogger
      [] x = EmitterClass -> TheEmitter
      [] OTHER -> NoValue

(* new Application(): super(), then registerBaseBindings() *)
AppInit ==
    /\ bindings = [x \in AppIds |-> Unbound]
    /\ instances = [x \in AppIds |-> BaseInstance(x)]
    /\ resolved = BaseIds
    /\ buildStack = <<>>
    /\ heap = <<>>
    /\ last = Idle
    /\ registered = [x \in AppIds |-> BaseInstance(x)]
    /\ sharedFirst = [x \in AppIds |-> NoValue]
    /\ rebound = [x \in AppIds |-> FALSE]
    /\ made = [x \in AppIds |-> NoValue]
    /\ nops = 0
    /\ PipelineInit
    /\ ApplicationFields
    /\ LoggerInit

UnregisteredProvider(provider) ==
    [kind |-> "UnregisteredProvider", name |-> <<provider>>, index |-> 0, owner |-> <<>>]

(* getProvider(provider): serviceProviders.get(provider) ?? null *)
getProvider(table, provider) == table[provider]

(* register that skips the lookup of the instance when force is set *)
registerTrustingForce(app, provider, force) ==
    IF getProvider(app.serviceProviders, provider) /\ ~force
    THEN [app |-> app, ok |-> TRUE, err |-> NoError]
    ELSE IF ~app.serviceProviders[provider] /\ ~force
    THEN [app |-> app, ok |-> FALSE, err |-> UnregisteredProvider(provider)]
    ELSE [app |-> [serviceProviders |-> [app.serviceProviders EXCEPT ![provider] = TRUE],
                   loadedProviders |-> [app.loadedProviders EXCEPT ![provider] = TRUE],
                   hooks |-> [app.hooks EXCEPT ![provider] = @ + 1]],
          ok |-> TRUE, err |-> NoError]

(* register that creates the provider instance when the table has none *)
registerInstantiating(app, provider, force) ==
    IF getProvider(app.serviceProviders, provider) /\ ~force
    THEN [app |-> app, ok |-> TRUE, err |-> NoError]
    ELSE [app |-> [serviceProviders |-> [app.serviceProviders EXCEPT ![provider] = TRUE],
                   loadedProviders |-> [app.loadedProviders EXCEPT ![provider] = TRUE],
                   hooks |-> [app.hooks EXCEPT ![provider] = @ + 1]],
          ok |-> TRUE, err |-> NoError]

(* register(provider, force), on app = [serviceProviders, loadedProviders, hooks] *)
register(app, provider, force) ==
    IF getProvider(app.serviceProviders, provider) /\ ~force
    THEN [app |-> app, ok |-> TRUE, err |-> NoError]
    ELSE IF ~app.serviceProviders[provider]
    THEN [app |-> app, ok |-> FALSE, err |-> UnregisteredProvider(provider)]
    ELSE \* instance.register(); markedAsRegistered(provider, instance)
         [app |-> [serviceProviders |-> [app.serviceProviders EXCEPT ![provider] = TRUE],
                   loadedProviders |-> [app.loadedProviders EXCEPT ![provider] = TRUE],
                   hooks |-> [app.hooks EXCEPT ![provider] = @ + 1]],
          ok |-> TRUE, err |-> NoError]

Register(provider, force) ==
    /\ nops < MaxOps
    /\ LET r == register([serviceProviders |-> serviceProviders,
                          loadedProviders |-> loadedProviders,
                          hooks |-> hooks], provider, force)
       IN  /\ serviceProviders' = r.app.serviceProviders
           /\ loadedProviders' = r.app.loadedProviders
           /\ hooks' = r.app.hooks
           /\ called' = [op |-> "register", provider |-> provider, force |-> force,
                         ok |-> r.ok, err |-> r.err, returned |-> FALSE]
    /\ last' = [Idle EXCEPT !.op = "register"]
    /\ nops' = nops + 1
    /\ UNCHANGED <<bindings, instances, resolved, buildStack, heap, registered,
                   sharedFirst, rebound, made, booted>>
    /\ UNCHANGED <<pvars, lvars>>

(* isBooted(): return this.booted *)
isBooted(flag) == flag

IsBooted ==
    /\ nops < MaxOps
    /\ called' = [NotCalled EXCEPT !.op = "isBooted", !.returned = isBooted(booted)]
    /\ last' = [Idle EXCEPT !.op = "isBooted"]
    /\ nops' = nops + 1
    /\ UNCHANGED <<bindings, instances, resolved, buildStack, heap, registered,
                   sharedFirst, rebound, made>>
    /\ UNCHANGED <<serviceProviders, loadedProviders, booted, hooks>>
    /\ UNCHANGED <<pvars, lvars>>

(* flush(): this.buildStack = [] *)
Flush ==
    /\ nops < MaxOps
    /\ buildStack' = <<>>
    /\ last' = [Idle EXCEPT !.op = "flush"]
    /\ called' = [NotCalled EXCEPT !.op = "flush"]
    /\ nops' = nops + 1
    /\ UNCHANGED <<bindings, instances, resolved, heap, registered, sharedFirst,
                   rebound, made>>
    /\ UNCHANGED <<serviceProviders, loadedProviders, booted, hooks>>
    /\ UNCHANGED <<pvars, lvars>>

(* the container operations an application is driven with *)
AppBindPairs == {<<StrA, Foo>>, <<LoggerClass, LoggerClass>>}
AppMakeTargets == {StrA, StrApp, LoggerClass}

AppNext ==
    \/ \E provider \in Providers, force \in BOOLEAN : Register(provider, force)
    \/ Flush
    \/ IsBooted
    \/ \E p \in AppBindPairs : Singleton(p[1], p[2])
    \/ \E abstract \in {StrB, StrApp} : Instance(abstract, Nova)
    \/ \E abstract \in AppMakeTargets : Make(abstract, NoOverrides)

AppSpec == AppInit /\ [][AppNext]_vars

---------------------------------------------------------------------------
(* Logger: the state machine *)

(* pipeThrough(pipes), called on a logger that has no pipes and has not logged *)
PipeThrough(ps) ==
    /\ lpipes = <<>> /\ nlogs = 0
    /\ lpipes' = ps
    /\ UNCHANGED <<stream, today, written, lcall, nlogs>>
    /\ UNCHANGED <<cvars, pvars, avars>>

(* info / error / warning / debug / notice (message, context): log(level, ...) *)
LogCall(level, message, context) ==
    /\ nlogs < MaxLogs
    /\ LET record == [level |-> level, message |-> message, context |-> context,
                       timestamp |-> today]
           r == ldispatch(lpipes, 0, record, [written |-> written, trace |-> <<>>])
       IN  /\ written' = r.written
           /\ lcall' = [level |-> level, message |-> message, context |-> context,
                        at |-> today, before |-> Len(written), trace |-> r.trace]
    /\ nlogs' = nlogs + 1
    /\ UNCHANGED <<lpipes, stream, today>>
    /\ UNCHANGED <<cvars, pvars, avars>>

(* UTC midnight passes *)
Tick ==
    /\ today < MaxDay
    /\ today' = today + 1
    /\ UNCHANGED <<lpipes, stream, written, lcall, nlogs>>
    /\ UNCHANGED <<cvars, pvars, avars>>

LogNext ==
    \/ (lpipes = <<>> /\ nlogs = 0 /\ \E ps \in LogPipeLists : PipeThrough(ps))
    \/ \E level \in Levels, message \in Messages, context \in Contexts :
          LogCall(level, message, context)
    \/ Tick

LogSpec == Init /\ [][LogNext]_vars

---------------------------------------------------------------------------
(* Pipeline: a whole run.  thenReturn(ps, v) is the run of the pipes ps on
   the payload v carried out to its end with no other call in between; its
   ctl is "ret" when the promise resolves and "throw" when it rejects. *)

RECURSIVE settle(_, _)
settle(ps, r) ==
    IF r.ctl.k = "call" THEN settle(ps, dispatch(ps, r.ctl.i, r.ctl.v, r))
    ELSE IF r.stack = <<>> THEN r
    ELSE IF r.ctl.k = "ret" THEN settle(ps, resume(r, r.ctl.v))
    ELSE settle(ps, reject(r, r.ctl.e))

thenReturn(ps, v) == settle(ps, dispatch(ps, 0, v, Forwarded(NewRun, -1, v)))

(* what the caller of thenReturn observes of a run *)
Outcome(c) ==
    IF c.k \in {"ret", "done"} THEN [ok |-> TRUE, v |-> c.v, e |-> NoPipeError]
    ELSE [ok |-> FALSE, v |-> <<>>, e |-> c.e]

---------------------------------------------------------------------------
(* Container: properties *)

Current == [instances |-> instances, resolved |-> resolved, heap |-> heap, trace |-> <<>>]
IsMake == last.op = "make"
Bound(x) == bindings[x].bound
BoundNonShared(x) == bindings[x].bound /\ ~bindings[x].shared
(* a producer that builds a new object on each call: a class or the factory Fresh *)
BuildsFresh(concrete) == concrete \in {Foo, Baz, Two, Dep, Fresh}

C2_InstanceWins ==
    (IsMake /\ registered[last.abstract] # NoValue)
        => /\ last.ok
           /\ last.val = registered[last.abstract]
           /\ last.trace = <<>>
           /\ Len(heap) = last.preHeap

C2_Witness ==
    /\ IsMake /\ registered[last.abstract] # NoValue
    /\ Bound(last.abstract) /\ rebound[last.abstract]
    /\ last.parameters # NoOverrides
    /\ last.val = registered[last.abstract]

\* C7 (as claimed): make(X) for X unbound, not cached and neither a class nor a
\* factory fails with the MissingDependency error and with no other kind.
C7_UnboundFailsWithMissingDependency ==
    (IsMake /\ ~last.hit /\ ~Bound(last.abstract) /\ typeof(last.abstract) # "function")
        => (~last.ok /\ last.err.kind = "MissingDependency")

(* The has()/make() calls build made for its own constructor's parameters *)
OwnLookup(name) ==
    \E k \in 1..Len(last.trace) :
        /\ last.trace[k].level = 2
        /\ last.trace[k].ev \in {"has", "make"}
        /\ last.trace[k].id = Str(name)

\* C8 (as claimed): when make(X, overrides) builds a class whose constructor
\* declares a parameter x at position i and overrides holds a value under x,
\* the container looks x up neither with has() nor with make(), the build
\* does not fail for want of parameter i, and the object built received the
\* override as its i-th argument.
C8_OverridePassedVerbatim ==
    LET c == getConcrete(last.abstract) IN
    (IsMake /\ ~last.hit /\ isBuildable(c, last.abstract) /\ isClass(c))
        => \A i \in 1..Len(DeclaredParams(c)) :
              LET x == DeclaredParams(c)[i] IN
              Override(last.parameters, x) # Undefined
                 => /\ ~OwnLookup(x)
                    /\ ~(last.err.kind = "MissingDependency" /\ last.err.index = i - 1)
                    /\ last.ok => heap[last.val.id].args[i] = Override(last.parameters, x)

(* two successive make(x) calls issued in the current state *)
TwoMakesDiffer(x) ==
    LET r1 == make(x, NoOverrides, Current, MaxDepth)
        r2 == make(x, NoOverrides, r1.st, MaxDepth)
    IN  (r1.ok /\ r2.ok) => r1.val # r2.val

\* C9 (as claimed): in every reachable state, for an identifier bound
\* non-shared, with no directly registered instance and a producer that
\* builds a new object per call, two successive makes return distinct objects.
C9_NonSharedMakesDiffer ==
    \A x \in Ids :
        (BoundNonShared(x) /\ registered[x] = NoValue /\ BuildsFresh(getConcrete(x)))
            => TwoMakesDiffer(x)

\* C9 (amended): the same, for identifiers that also have no cache entry at
\* all (none registered directly and none left by a make under an earlier
\* shared binding); and a make performed in such a state returns an object
\* that did not exist before the call, so not the one the previous make gave.
C9_NonSharedUncachedMakesDiffer ==
    /\ \A x \in Ids :
          (BoundNonShared(x) /\ instances[x] = NoValue /\ BuildsFresh(getConcrete(x)))
              => TwoMakesDiffer(x)
    /\ (IsMake /\ last.ok /\ BoundNonShared(last.abstract)
           /\ instances[last.abstract] = NoValue /\ BuildsFresh(getConcrete(last.abstract)))
          => (last.val.t = "obj" /\ last.val.id > last.preHeap /\ last.val # last.prev)

C9_Witness ==
    /\ IsMake /\ last.ok
    /\ BoundNonShared(last.abstract)
    /\ instances[last.abstract] = NoValue
    /\ BuildsFresh(getConcrete(last.abstract))
    /\ last.prev # NoValue
    /\ last.val # last.prev

(* what make(x) returns when issued in the current state *)
MakeOutcome(x) ==
    LET r == make(x, NoOverrides, Current, MaxDepth) IN [ok |-> r.ok, val |-> r.val]

\* C10: a step that performs bind()/singleton() sets the identifier's entry of
\* the bindings table to the new producer and flag, changes no other entry,
\* leaves the instance cache, the Resolved-Set and the objects untouched, and,
\* when the identifier has a cached instance, leaves the outcome of make for
\* it unchanged.
C10_BindOnlyTouchesBindings ==
    [][\A x \in Ids :
          (last'.op = "bind" /\ last'.abstract = x) =>
              /\ bindings' = [bindings EXCEPT ![x] =
                                 [bound |-> TRUE, value |-> last'.concrete,
                                  shared |-> last'.shared]]
              /\ instances' = instances
              /\ resolved' = resolved
              /\ heap' = heap
              /\ buildStack' = buildStack
              /\ instances[x] # NoValue
                    => /\ MakeOutcome(x)' = MakeOutcome(x)
                       /\ MakeOutcome(x)' = [ok |-> TRUE, val |-> instances[x]]
    ]_vars

C10_Witness ==
    /\ last.op = "bind"
    /\ rebound[last.abstract]
    /\ sharedFirst[last.abstract] # NoValue
    /\ instances[last.abstract] = sharedFirst[last.abstract]
    /\ getConcrete(last.abstract) = Fresh

\* C11 (as claimed): a step that performs a make which fails leaves the
\* instance cache exactly as it was: no entry for the requested identifier and
\* none for a dependency resolved before the failure.
C11_FailedMakeLeavesCache ==
    [][(last'.op = "make" /\ ~last'.ok) => instances' = instances]_vars

(* the identifiers build handed to make() for its own constructor's
   parameters, in the order of the calls *)
OwnMakes ==
    LET t == last.trace
        IsOwn(k) == /\ k > 1
                    /\ t[k].ev = "make" /\ t[k].level = 2
                    /\ t[k - 1].ev = "has" /\ t[k - 1].level = 2
                    /\ t[k - 1].id = t[k].id
        RECURSIVE From(_)
        From(k) == IF k > Len(t) THEN <<>>
                   ELSE IF IsOwn(k) THEN <<t[k].id>> \o From(k + 1)
                   ELSE From(k + 1)
    IN  From(1)

(* the identifiers Str(p1), ..., Str(pn) of the parameters a class declares *)
ParamIds(c) == [i \in 1..Len(DeclaredParams(c)) |-> Str(DeclaredParams(c)[i])]

IsPrefix(s, t) == Len(s) <= Len(t) /\ s = SubSeq(t, 1, Len(s))

\* C12 (as claimed): when make builds a class whose constructor declares
\* p1..pn (n >= 1), every pi bound or cached under its name and no overrides
\* given, build calls make(p1), make(p2), ... in declaration order (stopping
\* only where such a make itself fails), never reports one of p1..pn as
\* missing, and on success has instantiated the class with n arguments, the
\* i-th being what make(pi) gave.
C12_ParametersResolvedByName ==
    LET c == getConcrete(last.abstract)
        ids == ParamIds(c)
    IN  (/\ IsMake /\ ~last.hit
         /\ isBuildable(c, last.abstract) /\ isClass(c)
         /\ Len(ids) >= 1
         /\ last.parameters = NoOverrides
         /\ \A i \in 1..Len(ids) : has(instances, ids[i]))
            => /\ IsPrefix(OwnMakes, ids)
               /\ ~(last.err.kind = "MissingDependency" /\ last.err.owner = c.text)
               /\ last.ok =>
                     /\ OwnMakes = ids
                     /\ Len(heap[last.val.id].args) = Len(ids)
                     /\ \A i \in 1..Len(ids) :
                           instances[ids[i]] # NoValue
                              => heap[last.val.id].args[i] = instances[ids[i]]

(* build resolves the parameters before position i without failing *)
EarlierResolve(c, parameters, i) ==
    resolveParams(SubSeq(getParamNames(c), 1, i - 1), 1, c, parameters,
                  Current, MaxDepth - 2).ok

\* C13 (as claimed): in every reachable state, make of a class whose
\* constructor declares, at position i, a parameter with no override and
\* neither binding nor cached instance under its name (the parameters before
\* it resolving without failure) fails, and the error the caller of make
\* receives is the resolution error carrying that parameter's name, the
\* position i and the name of the class.
C13_MissingParameterIsNamed ==
    \A c \in {Baz, Two}, parameters \in {NoOverrides, [NoOverrides EXCEPT ![NameB] = Nova]} :
        \A i \in 1..Len(DeclaredParams(c)) :
            LET x == DeclaredParams(c)[i]
                r == make(c, parameters, Current, MaxDepth)
            IN  (/\ ~Bound(c) /\ instances[c] = NoValue
                 /\ Override(parameters, x) = Undefined
                 /\ ~has(instances, Str(x))
                 /\ EarlierResolve(c, parameters, i))
                    => (~r.ok /\ r.err = MissingDependency(x, i - 1, c.text))

\* C20: once a make of an identifier has succeeded while the identifier was
\* registered shared (singleton), every later step that performs a make of
\* that identifier calls no factory and no constructor and allocates no
\* object: the container never creates a second instance for it.
C20_SingletonBuiltOnce ==
    [][(last'.op = "make" /\ sharedFirst[last'.abstract] # NoValue)
          => /\ last'.ok
             /\ last'.trace = <<>>
             /\ heap' = heap
             /\ last'.val = made[last'.abstract]
      ]_vars

C20_Witness ==
    /\ IsMake /\ last.ok /\ last.hit
    /\ bindings[last.abstract].bound /\ bindings[last.abstract].shared
    /\ getConcrete(last.abstract) = Fresh
    /\ last.trace = <<>>
    /\ Len(heap) = 1 /\ last.preHeap = 1
    /\ last.val = Obj(1)
    /\ last.prev = Obj(1)

\* C21: when make builds an identifier whose producer is a plain function,
\* the function is called exactly once, with no arguments, nothing else is
\* looked up or built (whatever overrides were passed and whatever is bound),
\* and make returns the very object that call produced.
C21_FactoryCalledOnce ==
    LET c == getConcrete(last.abstract) IN
    (IsMake /\ ~last.hit /\ isBuildable(c, last.abstract)
        /\ typeof(c) = "function" /\ ~isClass(c))
        => /\ last.ok
           /\ last.trace = <<[ev |-> "call", id |-> c, level |-> 1]>>
           /\ Len(heap) = last.preHeap + 1
           /\ heap[Len(heap)] = [cls |-> c, args |-> <<>>]
           /\ last.val = Obj(Len(heap))

C21_Witness ==
    /\ IsMake /\ ~last.hit /\ last.ok
    /\ last.abstract = StrA /\ getConcrete(StrA) = Fresh
    /\ last.parameters = [n \in OverrideNames |-> Nova]
    /\ Bound(StrB)
    /\ last.val = Obj(Len(heap))
    /\ heap[Len(heap)].cls = Fresh

\* C22: make of a class whose constructor declares no parameters, performed
\* when the class has no cached instance and is unbound or bound to itself,
\* succeeds whatever else the container holds and returns a new object of that
\* class, built by one constructor call and no lookup.
C22_ParameterlessClassBuilds ==
    LET c == last.abstract IN
    (IsMake /\ ~last.hit /\ isClass(c) /\ DeclaredParams(c) = <<>>
        /\ (~Bound(c) \/ bindings[c].value = c))
        => /\ last.ok
           /\ last.trace = <<[ev |-> "new", id |-> c, level |-> 1]>>
           /\ Len(heap) = last.preHeap + 1
           /\ heap[Len(heap)] = [cls |-> c, args |-> <<>>]
           /\ last.val = Obj(Len(heap))

C22_Witness ==
    /\ IsMake /\ ~last.hit /\ last.ok
    /\ last.abstract = Foo
    /\ Bound(Foo) /\ bindings[Foo].value = Foo
    /\ last.preHeap > 0
    /\ last.val = Obj(Len(heap))
    /\ heap[Len(heap)].cls = Foo

\* C23 (as claimed): no make exhausts the call stack: every make ends by
\* returning or by an error the container or a producer raised, never because
\* the nesting of make/build calls outgrew what the engine can hold.
C23_MakeTerminates ==
    IsMake => last.err # RangeError

\* C30: no step removes an identifier from the resolved set; a step that
\* performs a successful make which built its identifier (no cache hit), shared
\* or not, and a step that performs instance(), leave the identifier in it.
C30_ResolvedOnlyGrows ==
    [][/\ resolved \subseteq resolved'
       /\ (last'.op = "make" /\ last'.ok /\ ~last'.hit) => last'.abstract \in resolved'
       /\ last'.op = "instance" => last'.abstract \in resolved'
      ]_vars

C30_Witness ==
    /\ IsMake /\ last.ok /\ ~last.hit
    /\ BoundNonShared(last.abstract)
    /\ Cardinality(resolved) >= 3
    /\ \E x \in InstanceKeys : registered[x] # NoValue /\ x \in resolved /\ x # last.abstract

BoundShared(x) == bindings[x].bound /\ bindings[x].shared
(* the make calls nested in the most recent make: alias targets and parameters *)
NestedMakes == {last.trace[k].id : k \in {j \in 1..Len(last.trace) : last.trace[j].ev = "make"}}

\* C31: a step that gives identifier x a cache entry it did not have is either
\* instance(x, o), storing o, or a make during which x is bound shared: for
\* the identifier the make was called with the make succeeded and the entry
\* is what it returned, for any other identifier a nested make of it took
\* place; a make of an identifier that is unbound or bound non-shared leaves
\* that identifier's cache entry as it was.
C31_CacheEntryOnlyWhenSharedOrInstance ==
    [][/\ \A x \in Ids :
             (instances[x] = NoValue /\ instances'[x] # NoValue) =>
                 \/ /\ last'.op = "instance" /\ last'.abstract = x
                    /\ instances'[x] = last'.object
                 \/ /\ last'.op = "make" /\ BoundShared(x)
                    /\ IF x = last'.abstract
                       THEN last'.ok /\ instances'[x] = last'.val
                       ELSE \E k \in 1..Len(last'.trace) :
                               last'.trace[k].ev = "make" /\ last'.trace[k].id = x
       /\ (last'.op = "make" /\ ~BoundShared(last'.abstract)) =>
             instances'[last'.abstract] = instances[last'.abstract]
      ]_vars

C31_Witness ==
    /\ IsMake /\ last.ok /\ ~last.hit
    /\ BoundNonShared(last.abstract)
    /\ instances[last.abstract] = NoValue
    /\ \E y \in NestedMakes : BoundShared(y) /\ instances[y] = last.val

(* x is bound to another identifier: a producer that is neither a function
   nor x itself *)
IsAlias(x) == bindings[x].bound /\ bindings[x].value # x /\ typeof(bindings[x].value) # "function"

\* C32: a step that performs make(x, overrides) while x is bound to another
\* identifier y and has no cache entry ends as make(y) called in the state
\* before would end, provided that call does not exhaust the stack: the same
\* value or the same error, the first nested call being make(y); on success
\* the cache afterwards is the cache make(y) leaves, with the value also under
\* x exactly when x is bound shared.
C32_AliasResolvesItsTarget ==
    [][(last'.op = "make" /\ IsAlias(last'.abstract) /\ instances[last'.abstract] = NoValue) =>
          LET x == last'.abstract
              r == make(bindings[x].value, NoOverrides, Current, MaxDepth)
          IN  r.err # RangeError =>
                  /\ last'.ok = r.ok /\ last'.val = r.val /\ last'.err = r.err
                  /\ last'.trace # <<>>
                  /\ last'.trace[1] = [ev |-> "make", id |-> bindings[x].value, level |-> 0]
                  /\ heap' = r.st.heap
                  /\ \A y \in Ids \ {x} : instances'[y] = r.st.instances[y]
                  /\ instances'[x] = IF r.ok /\ BoundShared(x) THEN r.val ELSE r.st.instances[x]
      ]_vars

C32_Witness ==
    /\ IsMake /\ last.ok /\ ~last.hit
    /\ IsAlias(last.abstract) /\ BoundShared(last.abstract)
    /\ LET y == bindings[last.abstract].value
       IN  /\ BoundNonShared(y) /\ bindings[y].value = Foo
           /\ instances[y] = NoValue
    /\ instances[last.abstract] = last.val
    /\ last.val = Obj(Len(heap)) /\ heap[Len(heap)].cls = Foo

\* C33: in every state between container operations, every identifier that
\* has an instance-cache entry is in the resolved set.
C33_CachedIsResolved ==
    \A x \in Ids : instances[x] # NoValue => x \in resolved

C33_Witness ==
    /\ IsMake /\ ~last.ok
    /\ \E y \in NestedMakes :
          /\ BoundShared(y) /\ registered[y] = NoValue
          /\ instances[y] # NoValue /\ y \in resolved
    /\ \E z \in InstanceKeys : instances[z] = registered[z] /\ instances[z] # NoValue /\ z \in resolved
    /\ last.abstract \notin resolved

(* the overrides that name a parameter of the constructor make(x, .) builds
   itself; none when x is an alias or a factory *)
OwnOverrides(x, parameters) ==
    LET concrete == getConcrete(x)
        names == IF isBuildable(concrete, x) /\ isClass(concrete)
                 THEN getParamNames(concrete) ELSE <<>>
    IN  [n \in OverrideNames |->
            IF \E i \in 1..Len(names) : names[i] = n THEN parameters[n] ELSE Undefined]

\* C34: a step that performs make(x, overrides) on an identifier without a
\* cache entry ends exactly as make(x, own) called in the state before would
\* end, where own keeps only the overrides that name a parameter of the
\* constructor x itself is built with: the same value or error, the same
\* nested calls, the same objects allocated and the same cache.  Overrides
\* under other names reach neither the target of an alias nor a dependency
\* resolved by name.
C34_OverridesStayWithOwnConstructor ==
    [][(last'.op = "make" /\ instances[last'.abstract] = NoValue) =>
          LET x == last'.abstract
              r == make(x, OwnOverrides(x, last'.parameters), Current, MaxDepth)
          IN  /\ last'.ok = r.ok /\ last'.val = r.val /\ last'.err = r.err
              /\ last'.trace = r.st.trace
              /\ heap' = r.st.heap
              /\ instances' = r.st.instances
      ]_vars

(* the most recent make built a Dep whose parameter a, overridden by the
   caller, was resolved from the container *)
DepBuiltFromContainer ==
    /\ IsMake /\ last.ok /\ ~last.hit
    /\ last.parameters[NameA] = Nova
    /\ \E k \in (last.preHeap + 1)..Len(heap) :
          /\ heap[k].cls = Dep /\ Len(heap[k].args) = 1
          /\ heap[k].args[1].t = "obj" /\ heap[heap[k].args[1].id].cls = Fresh

C34_Witness ==
    /\ DepBuiltFromContainer
    /\ last.abstract = Foo /\ IsAlias(Foo)

---------------------------------------------------------------------------
(* Pipeline: properties *)

Finished == ctl.k \in {"done", "failed"}
LogIdx == 1..Len(log)
(* pipe log[p].i is run as a pipe: handle(v, next) or pipe(v, next) *)
IsInvocation(p) == log[p].ev \in {"handle", "call"}
(* any entry into the code of pipe log[p].i *)
IsEntry(p) == log[p].ev \in {"new", "handle", "call", "fallback"}
(* log[p] is a continuation call of a pipe that has called it before *)
IsSecondNext(p) ==
    /\ log[p].ev = "next"
    /\ \E q \in 1..(p - 1) : log[q].ev = "next" /\ log[q].i = log[p].i
AllForward == \A k \in 1..Len(pipes) : pipes[k].body = "forward"
NoCatch == \A k \in 1..Len(pipes) : pipes[k].body # "catch"

\* C3: pipes run in declared order: every invocation of pipe i directly
\* follows the continuation call of pipe i - 1 (thenReturn's own call for
\* pipe 0) and receives exactly the value passed there, invocations come in
\* strictly increasing index order, and when every pipe forwards once the
\* run ends returning the value the last pipe forwarded.
C3_PipesRunInOrder ==
    /\ \A p \in LogIdx :
          IsInvocation(p) =>
              LET q == IF log[p - 1].ev = "new" THEN p - 2 ELSE p - 1
              IN  /\ log[q].ev = "next"
                  /\ log[q].i = log[p].i - 1
                  /\ log[q].v = log[p].v
    /\ \A p1, p2 \in LogIdx :
          (IsInvocation(p1) /\ IsInvocation(p2) /\ p1 < p2) => log[p1].i < log[p2].i
    /\ (Finished /\ AllForward /\ pipes # <<>>) =>
          /\ ctl.k = "done"
          /\ \E p \in LogIdx :
                /\ log[p].ev = "next"
                /\ log[p].i = Len(pipes) - 1
                /\ log[p].v = ctl.v
          /\ ctl.v = log[1].v \o pipes

C3_Witness ==
    /\ ctl.k = "done"
    /\ AllForward
    /\ Len(pipes) = 3
    /\ pipes[1].shape = "arrow" /\ pipes[2].shape = "class" /\ pipes[3].shape = "function"
    /\ ctl.v = payload \o pipes

\* C4 (as claimed): a run in which some pipe called its continuation twice
\* (and no pipe catches errors) ends failed with the double-invocation error.
C4_TwiceFailsWithDoubleInvocation ==
    (Finished /\ NoCatch /\ \E p \in LogIdx : IsSecondNext(p))
        => (ctl.k = "failed" /\ ctl.e = DoubleInvocation)

\* C5: once a pipe has called its continuation a second time, that call is
\* rejected by dispatch and the code of no pipe after it is entered again.
C5_SecondNextReachesNoPipe ==
    \A p \in LogIdx :
        IsSecondNext(p) =>
            /\ \A q \in (p + 1)..Len(log) : IsEntry(q) => log[q].i <= log[p].i
            /\ p < Len(log) =>
                  (log[p + 1].ev = "rejected" /\ log[p + 1].i = log[p].i + 1)
            /\ p = Len(log) => (ctl.k = "call" /\ ctl.i = log[p].i + 1)

C5_Witness ==
    /\ Finished
    /\ Len(pipes) = 3
    /\ pipes[2].body = "twice"
    /\ \E p \in LogIdx : IsSecondNext(p) /\ log[p].i = 1
    /\ \E p \in LogIdx : IsInvocation(p) /\ log[p].i = 2

\* C6 (as claimed): when a pipe that raises an error has run and no pipe
\* before it catches, no later pipe is entered and thenReturn fails with
\* exactly the error that pipe raised.
C6_ErrorPropagatesUnchanged ==
    \A p \in LogIdx :
        (/\ Finished
         /\ IsInvocation(p)
         /\ pipes[log[p].i + 1].body = "throw"
         /\ \A k \in 1..log[p].i : pipes[k].body # "catch")
            => /\ ctl.k = "failed"
               /\ ctl.e = PipeError(log[p].i)
               /\ \A q \in LogIdx : IsEntry(q) => log[q].i <= log[p].i

(* the values of a payload and the marks pipes left on it, shapes aside *)
Erase(v) == [k \in 1..Len(v) |-> v[k].body]
SameResult(o1, o2) ==
    /\ o1.ok = o2.ok
    /\ Erase(o1.v) = Erase(o2.v)
    /\ o1.e = o2.e
(* the lists that differ from ps only in the shapes of the pipes *)
Reshapings(ps) ==
    {[k \in 1..Len(ps) |-> [shape |-> f[k], body |-> ps[k].body]] :
        f \in [1..Len(ps) -> Shapes]}

\* C14 (as claimed): the result of a finished run is the result of the run,
\* on the same payload, of every list obtained by giving the pipes other
\* shapes (class for function or function for class) with the same behaviour.
C14_ShapeDoesNotMatter ==
    Finished =>
        \A qs \in Reshapings(began.pipes) :
            SameResult(Outcome(thenReturn(qs, began.payload).ctl), Outcome(ctl))

\* C15: a run of a pipeline with no pipes raises no double-invocation error,
\* invokes nothing and resolves with the payload it was started with.
C15_NoPipesReturnsInput ==
    (runs > 0 /\ began.pipes = <<>>) =>
        /\ ctl.k \in {"ret", "done"}
        /\ ctl.v = began.payload
        /\ log = <<[ev |-> "next", i |-> -1, v |-> began.payload]>>

C15_Witness ==
    /\ began.pipes = <<>>
    /\ began.payload \in Payloads
    /\ runs = 1
    /\ ctl = DoneCtl(began.payload)

\* C16: once a pipe that returns without calling its continuation has been
\* invoked, no pipe after it is ever entered in that run, the value it
\* returned is what the pipe waiting before it gets back from its
\* continuation, and when it is the first pipe the run resolves with it.
C16_ReturnEndsChain ==
    \A p \in LogIdx :
        (IsInvocation(p) /\ pipes[log[p].i + 1].body = "stop") =>
            LET own == Mark(log[p].v, pipes[log[p].i + 1]) IN
            /\ \A q \in LogIdx : IsEntry(q) => log[q].i <= log[p].i
            /\ index = log[p].i
            /\ p = Len(log) => (ctl.k \in {"ret", "done"} /\ ctl.v = own)
            /\ (p = Len(log) /\ ctl.k = "ret" /\ stack # <<>>) => Top(Run).i < log[p].i
            /\ (log[p].i = 0 /\ Finished) => ctl = DoneCtl(own)

C16_Witness ==
    /\ Finished
    /\ Len(pipes) = 3
    /\ pipes[1] = [shape |-> "arrow", body |-> "forward"]
    /\ pipes[2] = [shape |-> "class", body |-> "stop"]
    /\ ctl = DoneCtl(Mark(Mark(began.payload, pipes[1]), pipes[2]))

\* C17 (as claimed): in a finished run where every pipe forwards once, the
\* code of each pipe has been entered exactly once, whatever its shape.
C17_EachBodyRunsOnce ==
    (Finished /\ AllForward) =>
        \A k \in 1..Len(pipes) :
            Cardinality({p \in LogIdx : IsEntry(p) /\ log[p].i = k - 1}) = 1

\* C18 (as claimed): whatever send() and through() calls are made while a run
\* is suspended, the run enters the pipes and forwards the values that the
\* undisturbed run of the pipes and payload it was started with does, and
\* ends with the same result.
C18_RunIgnoresLaterCalls ==
    LET alone == thenReturn(began.pipes, began.payload) IN
    runs > 0 =>
        /\ IsPrefix(log, alone.log)
        /\ Finished => (log = alone.log /\ Outcome(ctl) = Outcome(alone.ctl))

\* C19: a thenReturn issued after an earlier run of the same instance ended
\* is not rejected as a double invocation, starts at pipe 0 and, once
\* finished, has entered the pipes and produced the result that a first run
\* of the same pipes on the same payload gives.
C19_RerunStartsAfresh ==
    LET fresh == thenReturn(began.pipes, began.payload) IN
    runs > 1 =>
        /\ \A p \in LogIdx : ~(log[p].ev = "rejected" /\ log[p].i = 0)
        /\ began.pipes # <<>> => (Len(log) >= 2 /\ IsEntry(2) /\ log[2].i = 0)
        /\ Finished => (log = fresh.log /\ Outcome(ctl) = Outcome(fresh.ctl))

C19_Witness ==
    /\ runs = 2
    /\ ctl.k = "done"
    /\ Len(pipes) = 2
    /\ pipes[1].shape = "class" /\ pipes[2].shape = "arrow"
    /\ ctl.v = began.payload \o pipes

\* C28: within a run every step leaves the highest-index marker where it was
\* or raises it by exactly one; a step that carries out a continuation call
\* dispatch(i, v) with i above the marker sets the marker to i, one above its
\* old value, and with i not above the marker (equal: a repeated call; below:
\* a stale continuation used after later pipes ran) leaves the marker alone
\* and throws the double-invocation error.
C28_MarkerIsMonotonic ==
    [][runs' = runs =>
          /\ index' \in {index, index + 1}
          /\ ctl.k = "call" =>
                IF ctl.i > index
                THEN index' = ctl.i /\ index' = index + 1
                ELSE index' = index /\ ctl' = ThrowCtl(DoubleInvocation)
      ]_vars

C28_Witness ==
    /\ Finished
    /\ \E p \in LogIdx : log[p].ev = "rejected" /\ log[p].i < index
    /\ \E p \in LogIdx : log[p].ev = "rejected" /\ log[p].i = index
    /\ index = Len(pipes)

\* C29 (as claimed): no pipe whose construction succeeded is, after its
\* handle failed, invoked again as a plain function.
C29_NoCallAfterHandleFailed ==
    \A p \in LogIdx : log[p].ev # "fallback"

(* log[p] is the second continuation call of a pipe that did not await its
   first: the pipe is a "fork" pipe and has called before *)
IsUnawaitedSecondNext(p) ==
    /\ log[p].ev = "next" /\ log[p].i >= 0
    /\ pipes[log[p].i + 1].body = "fork"
    /\ \E q \in 1..(p - 1) : log[q].ev = "next" /\ log[q].i = log[p].i

\* C35: during a run every pipe is run as a pipe at most once; when a pipe
\* calls its continuation a second time without having awaited the first
\* call, the marker is already at or above the next index, and the dispatch
\* of that second call does nothing but throw the double-invocation error.
C35_UnawaitedSecondNextRejected ==
    /\ \A j \in 0..MaxPipes :
          Cardinality({p \in LogIdx : IsInvocation(p) /\ log[p].i = j}) <= 1
    /\ \A p \in LogIdx :
          IsUnawaitedSecondNext(p) =>
              /\ index >= log[p].i + 1
              /\ p < Len(log) =>
                    log[p + 1] = [ev |-> "rejected", i |-> log[p].i + 1, v |-> log[p].v]

C35_Witness ==
    /\ Len(pipes) = 3
    /\ pipes[1] = [shape |-> "arrow", body |-> "fork"]
    /\ pipes[2] = [shape |-> "arrow", body |-> "catch"]
    /\ pipes[3] = [shape |-> "class", body |-> "twice"]
    /\ ctl = FailedCtl(DoubleInvocation)
    /\ \E p \in LogIdx : IsUnawaitedSecondNext(p) /\ p < Len(log) /\ log[p + 1].ev = "rejected"
    /\ Cardinality({p \in LogIdx : IsInvocation(p) /\ log[p].i = 1}) = 1

---------------------------------------------------------------------------
(* Application: properties *)

\* C26 (as claimed): right after flush() the container has no binding and no
\* instance left: has(x) is false for every identifier and no identifier has
\* a cached or registered instance that make would return.
C26_FlushEmptiesContainer ==
    last.op = "flush" =>
        \A x \in DOMAIN bindings :
            /\ ~has(instances, x)
            /\ instances[x] = NoValue

\* C27: a step that performs register(p, force) while p has no provider
\* instance fails with the unregistered-provider error for p, with force set
\* or not, calls no register() hook and changes neither provider table.
C27_UnregisteredProviderRejected ==
    [][\A p \in Providers :
          (last'.op = "register" /\ called'.provider = p /\ ~serviceProviders[p]) =>
              /\ ~called'.ok
              /\ called'.err = UnregisteredProvider(p)
              /\ hooks' = hooks
              /\ serviceProviders' = serviceProviders
              /\ loadedProviders' = loadedProviders
      ]_vars

C27_Witness ==
    /\ last.op = "register"
    /\ called.force
    /\ ~called.ok
    /\ called.err = UnregisteredProvider("pipeline")
    /\ \A p \in Providers : hooks[p] = 0 /\ ~serviceProviders[p] /\ ~loadedProviders[p]
    /\ nops > 1

\* C36: in every state of an application driven through its public methods
\* no provider has an instance in the provider table, none is marked loaded,
\* no register() hook has run and the booted flag is false; a register just
\* performed failed with the unregistered-provider error for its provider,
\* and an isBooted just performed returned false.
C36_NoProviderEverRegistered ==
    /\ \A p \in Providers : ~serviceProviders[p] /\ ~loadedProviders[p] /\ hooks[p] = 0
    /\ ~booted
    /\ called.op = "register" =>
          ~called.ok /\ called.err = UnregisteredProvider(called.provider)
    /\ called.op = "isBooted" => ~called.returned

C36_Witness ==
    /\ called.op = "isBooted" /\ ~called.returned
    /\ nops >= 3
    /\ BoundShared(StrA) /\ instances[StrA].t = "obj"
    /\ instances[StrApp] = Nova

---------------------------------------------------------------------------
(* Logger: properties *)

TraceIdx == 1..Len(lcall.trace)
(* the write events of the most recent call, in order *)
Writes == SelectSeq(lcall.trace, LAMBDA e : e.ev = "write")
(* the lines the most recent call added *)
NewLines == SubSeq(written, lcall.before + 1, Len(written))

\* C24: after a level operation, the trace of its dispatch starts with the
\* record built from the call (that level, message, context, the time of the
\* call) handed to pipe 0 (or written, when there are no pipes); every entry
\* into pipe i > 0, and every write, directly follows a forward of the pipe
\* before it and receives the record forwarded there; the lines added are the
\* writes, in order, each of the form [timestamp] LEVEL: message, followed by
\* " | " and the JSON of the context exactly when the context is not empty.
C24_LogPassesPipesThenWrites ==
    lcall.level # "" =>
        LET t == lcall.trace
            built == [level |-> lcall.level, message |-> lcall.message,
                      context |-> lcall.context, timestamp |-> lcall.at]
        IN  /\ t # <<>> /\ t[1].i = 0 /\ t[1].payload = built
            /\ t[1].ev = IF lpipes = <<>> THEN "write"
                         ELSE IF lpipes[1].shape = "function" THEN "function" ELSE "handle"
            /\ \A k \in TraceIdx :
                  (t[k].ev # "next" /\ t[k].i > 0) =>
                      /\ t[k - 1].ev = "next"
                      /\ t[k - 1].i = t[k].i - 1
                      /\ t[k - 1].payload = t[k].payload
            /\ \A k \in TraceIdx : t[k].ev = "write" <=> (t[k].ev # "next" /\ t[k].i = Len(lpipes))
            /\ Len(NewLines) = Len(Writes)
            /\ \A k \in 1..Len(Writes) :
                  LET p == Writes[k].payload
                      text == NewLines[k].text
                      head == 5 + Len(p.message)
                  IN  /\ NewLines[k].timestamp = p.timestamp
                      /\ Len(text) >= head
                      /\ SubSeq(text, 1, 5) = <<"[", "timestamp", "] ", toUpperCase(p.level), ": ">>
                      /\ SubSeq(text, 6, head) = p.message
                      /\ p.context = {} => Len(text) = head
                      /\ p.context # {} =>
                            SubSeq(text, head + 1, Len(text)) = <<" | ">> \o JSONstringify(p.context)

C24_Witness ==
    /\ lcall.level = "error"
    /\ lcall.context = {"user"}
    /\ Len(lpipes) = 2
    /\ lpipes[1] = [shape |-> "object", body |-> "forward"]
    /\ lpipes[2] = [shape |-> "function", body |-> "forward"]
    /\ Len(NewLines) = 1
    /\ NewLines[1].text = <<"[", "timestamp", "] ", "ERROR", ": ", "Hello", "object", "function",
                            " | ", "{", "user", "}">>

(* how often a pipe calls its continuation *)
ForwardCount(pipe) ==
    CASE pipe.body = "stop" -> 0
      [] pipe.body = "twice" -> 2
      [] OTHER -> 1

RECURSIVE EndReached(_)
(* how often a call through the pipes ps reaches the end of the chain *)
EndReached(ps) == IF ps = <<>> THEN 1 ELSE ForwardCount(Head(ps)) * EndReached(Tail(ps))

\* C37: the lines one Logger call adds are as many as the times its dispatch
\* reached the end of the pipe chain, which is the product of how often each
\* pipe calls its continuation: none if a pipe does not forward, one if every
\* pipe forwards once, more than one if some pipes forward twice and all
\* others forward.
C37_OneLinePerEndReached ==
    lcall.level # "" =>
        /\ Len(NewLines) = Cardinality({k \in TraceIdx : lcall.trace[k].ev # "next"
                                                          /\ lcall.trace[k].i = Len(lpipes)})
        /\ Len(NewLines) = EndReached(lpipes)
        /\ (\E k \in 1..Len(lpipes) : lpipes[k].body = "stop") => Len(NewLines) = 0
        /\ (\A k \in 1..Len(lpipes) : ForwardCount(lpipes[k]) = 1) => Len(NewLines) = 1
        /\ ((\E k \in 1..Len(lpipes) : lpipes[k].body = "twice")
              /\ (\A k \in 1..Len(lpipes) : lpipes[k].body # "stop")) => Len(NewLines) > 1

C37_Witness ==
    /\ lcall.level = "info"
    /\ Len(lpipes) = 2
    /\ lpipes[1].body = "twice" /\ lpipes[2].body = "twice"
    /\ Len(NewLines) = 4
    /\ nlogs = 2 /\ Len(written) = 8

\* C25 (as claimed): every line written is in the file named for the UTC day
\* on which it was written.
C25_LineGoesToFileOfItsDay ==
    \A k \in 1..Len(written) : written[k].file = getDateFilename(written[k].on)

====
